---- MODULE Spec2Model ----
(***************************************************************************)
(* Model of task_scheduler.TaskScheduler (src/task_scheduler.py).          *)
(*                                                                         *)
(* Time is an integer clock that counts half seconds, so that a due time   *)
(* can fall strictly between two wakes of the polling loop.  The clock     *)
(* advances on its own: time.sleep(1) sleeps for at least one second, and  *)
(* a thread may be held up for any time between two of its steps.          *)
(*                                                                         *)
(* Every method that touches the task list does so inside                  *)
(* `with self.lock`, so each locked block is one atomic step.  The polling *)
(* loop is split where the code can be interleaved: the                    *)
(* `while self.running` test together with the read of `now` (no lock      *)
(* held), and the locked scan followed by the call of time.sleep(1).       *)
(* start() creates a thread at every call, so the threads executing _run   *)
(* are kept as a bag of thread states.                                     *)
(*                                                                         *)
(* Spec follows the scheduler under every call.  TimingSpec follows one    *)
(* repeating task for 5.5 seconds and records whether a polling thread was *)
(* held up.  LockSpec splits every locked block into the taking of the     *)
(* lock and the block itself, and lets the actions call the scheduler.     *)
(*                                                                         *)
(* The other source files have a specification each, over variables of     *)
(* their own that the scheduler's specifications leave alone: ModuleSpec   *)
(* (task_scheduler_module.TaskScheduler: one calling thread and the loop   *)
(* threads it starts), ApiSpec (APIClient._request_with_retries), FetchSpec*)
(* (web_scraping_utils.fetch_html) and MonitorSpec (SystemMonitor).        *)
(***************************************************************************)
EXTENDS Integers, Sequences, FiniteSets, Bags, TLC

\* ---------------------------------------------------------------- bounds
MaxTime == 4        \* the clock stops advancing here
MaxTasks == 2       \* registrations accepted over one behaviour
MaxLoops == 2       \* polling threads alive at the same time
MaxInterval == 2    \* largest interval offered to schedule_repeating_task
MaxCalls == 2       \* calls of locked methods under way at the same time
MaxJobs == 2        \* jobs add_task appends over one behaviour
MaxStarts == 3      \* threads start_scheduler creates over one behaviour
MaxRuns == 2        \* calls of run_pending counted for one thread
RegisteredAt == 1   \* the time of the registration in the timing scenario

\* ------------------------------------------------------ program constants
TickInterval == 2   \* time.sleep(1): one second is two clock units
NoInterval == -1    \* interval = None
NoThread == -1      \* thread = None

Funcs == {"sample_task", "failing_task"}
Throws(func) == func = "failing_task"

RunAts == 0..MaxTime
Intervals == (-1)..MaxInterval

VARIABLES
    clock,      \* time.time()
    tasks,      \* self.tasks: sequence of Task records
    running,    \* self.running
    loops,      \* the live threads created by start(), each executing _run: a bag
    hist,       \* per Task object: the threads started for it
    raised      \* the exception the last public call raised, or "none"

vars == <<clock, tasks, running, loops, hist, raised>>

\* the record of a run that the timing scenario keeps
VARIABLES
    late        \* a polling thread that was ready to run has been held up

\* the lock, as the locking scenario follows it
VARIABLES
    lock,       \* self.lock: "free", or who holds it: "loop" or "call"
    calls       \* the calls of locked methods that are under way: a bag

\* task_scheduler_module.TaskScheduler (src/task_scheduler_module.py)
VARIABLES
    module_tasks,       \* self.tasks: the jobs add_task has appended
    stop_event,         \* self.stop_event.is_set()
    scheduler_thread,   \* self.scheduler_thread: a thread, or NoneThread
    threads,            \* the threads created by start_scheduler, in order
    caller,             \* where the thread that calls the methods is
    last                \* the last call: the level it logged at, what it raised

modvars == <<module_tasks, stop_event, scheduler_thread, threads, caller, last>>

\* api_client_utility.APIClient (src/api_client_utility.py)
VARIABLES
    api         \* the call of _request_with_retries that is under way or over

\* web_scraping_utils.fetch_html (src/web_scraping_utils.py)
VARIABLES
    fetch       \* the call of fetch_html that is under way or over

\* system_monitor.SystemMonitor (src/system_monitor.py)
VARIABLES
    monitoring,         \* self._monitoring
    monitor_thread,     \* self._thread: a thread, or NoneThread
    monitor_threads,    \* the threads created by start, in order
    monitor_caller      \* where the thread that calls the methods is

monvars == <<monitoring, monitor_thread, monitor_threads, monitor_caller>>

allvars == <<vars, late, lock, calls, modvars, api, fetch, monvars>>

\* the objects of the other source files are left alone
Elsewhere == UNCHANGED <<modvars, api, fetch, monvars>>

\* a thread executing _run: where it is, its local `now`, and the time
\* its time.sleep(1) ends
Loop(pc, now, wake_at) == [pc |-> pc, now |-> now, wake_at |-> wake_at]
One(r) == SetToBag({r})

\* Task.__init__; id stands for the identity of the Python object
Task(id, func, run_at, interval) ==
    [id |-> id, func |-> func, run_at |-> run_at, interval |-> interval,
     is_repeating |-> interval # NoInterval, thread |-> NoThread]

\* what is recorded about a Task object: its kind, the threads started for
\* it, those that ran Task.run to its end, and whether a cancel_task call
\* for its func has returned
NewHist(task) ==
    [is_repeating |-> task.is_repeating, started |-> 0, finished |-> 0,
     cancelled |-> FALSE]

Init ==
    /\ clock = 0
    /\ tasks = <<>>
    /\ running = FALSE
    /\ loops = EmptyBag
    /\ hist = <<>>
    /\ raised = "none"

\* time passes, up to limit
TimePasses(limit) ==
    /\ clock < limit
    /\ clock' = clock + 1
    /\ UNCHANGED <<tasks, running, loops, hist, raised>>

AdvanceTime == TimePasses(MaxTime)

\* nothing is recorded about the run
Unrecorded == UNCHANGED <<late, lock, calls>> /\ Elsewhere

\* task_scheduler_module.TaskScheduler.__init__
NoneThread == 0     \* self.scheduler_thread = None
Returned(level) == [log |-> level, raised |-> "none"]
ModuleInit ==
    /\ module_tasks = <<>>
    /\ stop_event = FALSE
    /\ scheduler_thread = NoneThread
    /\ threads = <<>>
    /\ caller = "idle"
    /\ last = Returned("none")

\* the objects have been constructed
\* no call of _request_with_retries or of fetch_html has been made
NoCall == [pc |-> "idle", retries |-> 0, attempt |-> 0, sent |-> <<>>,
           slept |-> 0, result |-> [raised |-> "none", value |-> "None"]]

\* SystemMonitor.__init__
MonitorInit ==
    /\ monitoring = FALSE
    /\ monitor_thread = NoneThread
    /\ monitor_threads = <<>>
    /\ monitor_caller = "idle"

Constructed ==
    /\ Init /\ late = FALSE /\ lock = "free" /\ calls = EmptyBag
    /\ ModuleInit
    /\ api = NoCall
    /\ fetch = NoCall
    /\ MonitorInit

\* ------------------------------------------------------------ Task methods
\* faulty variants of schedule_next_run: the interval is left out; the next
\* due time is counted from the previous due time
schedule_next_run_NoInterval(task, t) ==
    IF task.is_repeating THEN [task EXCEPT !.run_at = t] ELSE task
schedule_next_run_FromDue(task, t) ==
    IF task.is_repeating THEN [task EXCEPT !.run_at = @ + task.interval] ELSE task

\* Task.schedule_next_run; t is the value time.time() returns
schedule_next_run(task, t) ==
    IF task.is_repeating THEN [task EXCEPT !.run_at = t + task.interval] ELSE task

\* -------------------------------------------------------- registration
\* faulty variant: a due time equal to the current time is accepted
RunAtRejected_Strict(run_at, t) == run_at < t

\* `if run_at <= time.time(): raise TaskError`
RunAtRejected(run_at, t) == run_at <= t

\* faulty variant: a zero interval is accepted
IntervalRejected_Strict(interval) == interval < 0

\* `if interval <= 0: raise TaskError`
IntervalRejected(interval) == interval <= 0

schedule_task(func, run_at) ==
    IF RunAtRejected(run_at, clock)
    THEN /\ raised' = "TaskError"
         /\ UNCHANGED <<clock, tasks, running, loops, hist>>
    ELSE /\ Len(hist) < MaxTasks
         /\ LET task == Task(Len(hist) + 1, func, run_at, NoInterval) IN
              /\ tasks' = Append(tasks, task)
              /\ hist' = Append(hist, NewHist(task))
         /\ raised' = "none"
         /\ UNCHANGED <<clock, running, loops>>

schedule_repeating_task(func, interval) ==
    IF IntervalRejected(interval)
    THEN /\ raised' = "TaskError"
         /\ UNCHANGED <<clock, tasks, running, loops, hist>>
    ELSE /\ Len(hist) < MaxTasks
         /\ LET task == Task(Len(hist) + 1, func, clock + interval, interval) IN
              /\ tasks' = Append(tasks, task)
              /\ hist' = Append(hist, NewHist(task))
         /\ raised' = "none"
         /\ UNCHANGED <<clock, running, loops>>

\* ------------------------------------------------------ start and stop
start ==
    /\ BagCardinality(loops) < MaxLoops
    /\ running' = TRUE
    /\ loops' = loops (+) One(Loop("started", 0, 0))
    /\ raised' = "none"
    /\ UNCHANGED <<clock, tasks, hist>>

\* faulty variant: the flag is not cleared
stop_KeepsRunning ==
    /\ raised' = "none"
    /\ UNCHANGED <<clock, tasks, running, loops, hist>>

\* faulty variant: stop() returns only when every started action has ended
stop_WaitsForActions ==
    /\ \A id \in 1..Len(hist) : hist[id].finished = hist[id].started
    /\ running' = FALSE
    /\ raised' = "none"
    /\ UNCHANGED <<clock, tasks, loops, hist>>

stop ==
    /\ running' = FALSE
    /\ raised' = "none"
    /\ UNCHANGED <<clock, tasks, loops, hist>>

\* ------------------------------------------------------ the polling loop
\* faulty variants of the due test: a task due exactly now is skipped; a
\* task due within the next tick is taken
Due_Strict(task, now) == task.run_at < now
Due_Early(task, now) == task.run_at <= now + TickInterval

\* `if task.run_at <= now`
Due(task, now) == task.run_at <= now

\* faulty variant, `Thread(target=task.func())`: the action runs in the
\* polling thread and its exception leaves the loop
DispatchRaises_Inline(task) == Throws(task.func)

\* `threading.Thread(target=task.run).start()`: the action runs on the new
\* thread, so nothing it raises reaches the loop
DispatchRaises(task) == FALSE

\* faulty variant: a repeating task is started once for every period that
\* has passed since it was due
StartThread_CatchUp(h, task) ==
    [h EXCEPT ![task.id].started =
        @ + (IF task.is_repeating
             THEN 1 + ((clock - task.run_at) \div task.interval)
             ELSE 1)]

\* `task.thread.start()`
StartThread(h, task) == [h EXCEPT ![task.id].started = @ + 1]

\* faulty variant: the fired one-shot record is left in the list
RemoveTask_Forgotten(list, task) == list

\* `self.tasks.remove(task)`
RemoveTask(list, task) == SelectSeq(list, LAMBDA x : x.id # task.id)

\* `task.thread = threading.Thread(...)` and `task.schedule_next_run()`: the
\* record of a repeating task is mutated in place; the thread is
\* represented by the time it was started at
Reschedule(list, task, t) ==
    [i \in 1..Len(list) |->
        IF list[i].id = task.id
        THEN schedule_next_run([list[i] EXCEPT !.thread = t], t)
        ELSE list[i]]

\* faulty variant: the scan ends after the first due record of the list
ScanFrom_FirstOnly(snapshot, i, now, t, st) ==
    LET due == {k \in i..Len(snapshot) : Due(snapshot[k], now)} IN
      IF due = {} THEN st
      ELSE LET k == CHOOSE k \in due : \A m \in due : k <= m
               task == snapshot[k]
           IN [st EXCEPT !.hist = StartThread(@, task),
                         !.tasks = IF task.is_repeating
                                   THEN Reschedule(@, task, t)
                                   ELSE RemoveTask(@, task)]

\* the body of `for task in self.tasks[:]` from index i on; st.crashed
\* says that an exception left the loop
RECURSIVE ScanFrom(_, _, _, _, _)
ScanFrom(snapshot, i, now, t, st) ==
    IF i > Len(snapshot) \/ st.crashed THEN st
    ELSE LET task == snapshot[i] IN
         IF ~Due(task, now) THEN ScanFrom(snapshot, i + 1, now, t, st)
         ELSE IF DispatchRaises(task) THEN [st EXCEPT !.crashed = TRUE]
         ELSE ScanFrom(snapshot, i + 1, now, t,
                [st EXCEPT !.hist = StartThread(@, task),
                           !.tasks = IF task.is_repeating
                                     THEN Reschedule(@, task, t)
                                     ELSE RemoveTask(@, task)])

Scan(now, t) ==
    ScanFrom(tasks, 1, now, t, [tasks |-> tasks, hist |-> hist, crashed |-> FALSE])

\* `while self.running:` and `now = time.time()`
LoopWake(r) ==
    /\ r.pc \in {"started", "sleep"}
    /\ clock >= r.wake_at
    /\ loops' = IF running
                THEN (loops (-) One(r)) (+) One(Loop("scan", clock, 0))
                ELSE loops (-) One(r)
    /\ UNCHANGED <<clock, tasks, running, hist, raised>>

\* faulty variant: the polling thread joins the threads it started, so a
\* scan waits while an action is executing
LoopScan_Joins(r) ==
    /\ r.pc = "scan"
    /\ \A id \in 1..Len(hist) : hist[id].finished = hist[id].started
    /\ LET st == Scan(r.now, clock) IN
         /\ tasks' = st.tasks
         /\ hist' = st.hist
         /\ loops' = (loops (-) One(r)) (+) One(Loop("sleep", 0, clock + TickInterval))
    /\ UNCHANGED <<clock, running, raised>>

\* the `with self.lock:` block of _run, then the call of time.sleep(1)
LoopScan(r) ==
    /\ r.pc = "scan"
    /\ LET st == Scan(r.now, clock) IN
         /\ tasks' = st.tasks
         /\ hist' = st.hist
         /\ loops' = IF st.crashed
                     THEN loops (-) One(r)
                     ELSE (loops (-) One(r)) (+) One(Loop("sleep", 0, clock + TickInterval))
    /\ UNCHANGED <<clock, running, raised>>

\* faulty variant: when the action of a listed task raises, a thread is
\* started for the task again at once
WorkerRun_Retries(id) ==
    /\ id \in 1..Len(hist)
    /\ hist[id].finished < hist[id].started
    /\ hist' = [hist EXCEPT
                  ![id].finished = @ + 1,
                  ![id].started =
                      IF \E i \in 1..Len(tasks) :
                             tasks[i].id = id /\ Throws(tasks[i].func)
                      THEN @ + 1 ELSE @]
    /\ UNCHANGED <<clock, tasks, running, loops, raised>>

\* a thread started for task object id runs Task.run to its end: func
\* returns, or it raises and the exception is caught and logged
WorkerRun(id) ==
    /\ id \in 1..Len(hist)
    /\ hist[id].finished < hist[id].started
    /\ hist' = [hist EXCEPT ![id].finished = @ + 1]
    /\ UNCHANGED <<clock, tasks, running, loops, raised>>

\* ------------------------------------------------- listing and cancelling
\* what a call without a return statement gives its caller
NoneValue == [kind |-> "None"]

\* `f"Task scheduled at {...(task.run_at)}, repeating: {task.is_repeating}"`
LogLine(task) == [run_at |-> task.run_at, is_repeating |-> task.is_repeating]

\* the lines list_tasks writes to the log, `for task in self.tasks`
list_tasks_Logged(list) == [i \in 1..Len(list) |-> LogLine(list[i])]

\* list_tasks has no return statement
list_tasks_Returned(list) == NoneValue

\* faulty variant: listing empties the list
list_tasks_Consumes ==
    /\ tasks' = <<>>
    /\ raised' = "none"
    /\ UNCHANGED <<clock, running, loops, hist>>

list_tasks ==
    /\ raised' = "none"
    /\ UNCHANGED <<clock, tasks, running, loops, hist>>

\* faulty variant: the comparison is inverted
KeepOnCancel_Inverted(task, func) == task.func = func

\* `[task for task in self.tasks if task.func != func]`
KeepOnCancel(task, func) == task.func # func

cancel_task(func) ==
    /\ tasks' = SelectSeq(tasks, LAMBDA x : KeepOnCancel(x, func))
    /\ hist' = [id \in 1..Len(hist) |->
                  IF \E i \in 1..Len(tasks) : tasks[i].id = id /\ tasks[i].func = func
                  THEN [hist[id] EXCEPT !.cancelled = TRUE]
                  ELSE hist[id]]
    /\ raised' = "none"
    /\ UNCHANGED <<clock, running, loops>>

Next ==
    \/ AdvanceTime /\ Unrecorded
    \/ \E func \in Funcs, run_at \in RunAts :
          schedule_task(func, run_at) /\ Unrecorded
    \/ \E func \in Funcs, interval \in Intervals :
          schedule_repeating_task(func, interval) /\ Unrecorded
    \/ start /\ Unrecorded
    \/ stop /\ Unrecorded
    \/ \E r \in BagToSet(loops) : LoopWake(r) /\ Unrecorded
    \/ \E r \in BagToSet(loops) : LoopScan(r) /\ Unrecorded
    \/ \E id \in 1..MaxTasks : WorkerRun(id) /\ Unrecorded
    \/ list_tasks /\ Unrecorded
    \/ \E func \in Funcs : cancel_task(func) /\ Unrecorded

Spec == Constructed /\ [][Next]_allvars

\* ------------------------------------------------- the timing scenario
\* One repeating task with a period of one second is registered on a
\* scheduler that has been started and is not stopped; the run is followed
\* until 5.5 seconds after the registration.  late records whether the
\* clock has advanced while a polling thread was ready to take a step,
\* that is, whether a wake or a scan came later than the code asks for.
Period == TickInterval
Elapsed == 5 * TickInterval + 1
Horizon == RegisteredAt + Elapsed

LoopReady(r) == r.pc = "scan" \/ clock >= r.wake_at

TimingTick ==
    /\ TimePasses(Horizon)
    /\ late' = (late \/ \E r \in BagToSet(loops) : LoopReady(r))
    /\ UNCHANGED <<lock, calls>>
    /\ Elsewhere

TimingRegister ==
    /\ clock = RegisteredAt
    /\ Len(hist) = 0
    /\ loops # EmptyBag
    /\ schedule_repeating_task("sample_task", Period)
    /\ Unrecorded

TimingNext ==
    \/ TimingTick
    \/ start /\ Unrecorded
    \/ TimingRegister
    \/ \E r \in BagToSet(loops) : LoopWake(r) /\ Unrecorded
    \/ \E r \in BagToSet(loops) : LoopScan(r) /\ Unrecorded
    \/ \E id \in 1..MaxTasks : WorkerRun(id) /\ Unrecorded

TimingSpec == Constructed /\ [][TimingNext]_allvars

\* ------------------------------------------------ the locking scenario
\* The locked methods are followed step by step: a call enters, waits for
\* the lock, takes it, runs its `with self.lock:` block and releases it;
\* the polling thread does the same around its scan.  A call is made by a
\* thread outside the scheduler (by = Outside) or by the action of task
\* object by, from the thread the scheduler started for it.
Outside == 0
Methods ==
    {"schedule_task", "schedule_repeating_task", "cancel_task", "list_tasks", "stop"}
Registers(method) == method \in {"schedule_task", "schedule_repeating_task"}

\* the arguments the calls of the locking scenario are made with
LockFuncs == {"sample_task"}
CallArgs(method) ==
    IF method = "schedule_task" THEN {clock + 1}
    ELSE IF method = "schedule_repeating_task" THEN {1}
    ELSE {0}
CallFuncs(method) ==
    IF method \in {"list_tasks", "stop"} THEN {"none"} ELSE LockFuncs

Call(by, method, func, arg, pc) ==
    [by |-> by, method |-> method, func |-> func, arg |-> arg, pc |-> pc]

\* faulty variant: list_tasks reads the list without the lock
UsesLock_NotListing(method) == method # "list_tasks"

\* every one of these methods has its body in `with self.lock:`
UsesLock(method) == TRUE

CallsBy(by) == {c \in BagToSet(calls) : c.by = by}
Registering == {c \in BagToSet(calls) : Registers(c.method)}

\* the call is made and passes the checks that come before the lock
CallEnter(by, method, func, arg) ==
    /\ BagCardinality(calls) < MaxCalls
    /\ CallsBy(by) = {}
    /\ by # Outside => by \in 1..Len(hist) /\ hist[by].finished < hist[by].started
    /\ method = "schedule_task" => ~RunAtRejected(arg, clock)
    /\ method = "schedule_repeating_task" => ~IntervalRejected(arg)
    /\ Registers(method) => Len(hist) + Cardinality(Registering) < MaxTasks
    /\ calls' = calls (+) One(Call(by, method, func, arg,
                                   IF UsesLock(method) THEN "wait" ELSE "held"))
    /\ UNCHANGED <<vars, late, lock>>
    /\ Elsewhere

\* `with self.lock:` is entered
CallAcquire(c) ==
    /\ c.pc = "wait"
    /\ lock = "free"
    /\ lock' = "call"
    /\ calls' = (calls (-) One(c)) (+) One([c EXCEPT !.pc = "held"])
    /\ UNCHANGED <<vars, late>>
    /\ Elsewhere

\* `self.tasks.append(Task(...))`
Register(task) ==
    /\ tasks' = Append(tasks, task)
    /\ hist' = Append(hist, NewHist(task))
    /\ raised' = "none"
    /\ UNCHANGED <<clock, running, loops>>

\* the body of the method's `with self.lock:` block, and its end
CallBody(c) ==
    /\ c.pc = "held"
    /\ CASE c.method = "schedule_task" ->
              Register(Task(Len(hist) + 1, c.func, c.arg, NoInterval))
         [] c.method = "schedule_repeating_task" ->
              Register(Task(Len(hist) + 1, c.func, clock + c.arg, c.arg))
         [] c.method = "cancel_task" -> cancel_task(c.func)
         [] c.method = "list_tasks" -> list_tasks
         [] c.method = "stop" -> stop
    /\ lock' = IF UsesLock(c.method) THEN "free" ELSE lock
    /\ calls' = calls (-) One(c)
    /\ UNCHANGED late
    /\ Elsewhere

\* `with self.lock:` of _run is entered
LoopAcquire(r) ==
    /\ r.pc = "scan"
    /\ lock = "free"
    /\ lock' = "loop"
    /\ loops' = (loops (-) One(r)) (+) One(Loop("locked", r.now, 0))
    /\ UNCHANGED <<clock, tasks, running, hist, raised, late, calls>>
    /\ Elsewhere

\* the scan, the end of `with self.lock:` and the call of time.sleep(1)
LoopLocked(r) ==
    /\ r.pc = "locked"
    /\ LET st == Scan(r.now, clock) IN
         /\ tasks' = st.tasks
         /\ hist' = st.hist
         /\ loops' = IF st.crashed
                     THEN loops (-) One(r)
                     ELSE (loops (-) One(r)) (+) One(Loop("sleep", 0, clock + TickInterval))
    /\ lock' = "free"
    /\ UNCHANGED <<clock, running, raised, late, calls>>
    /\ Elsewhere

\* the action of task object id ends; it is not inside a call
ActionEnds(id) ==
    /\ CallsBy(id) = {}
    /\ WorkerRun(id)
    /\ Unrecorded

LockNext ==
    \/ AdvanceTime /\ Unrecorded
    \/ start /\ Unrecorded
    \/ \E by \in {Outside} \cup (1..MaxTasks), method \in Methods :
          \E func \in CallFuncs(method), arg \in CallArgs(method) :
              CallEnter(by, method, func, arg)
    \/ \E c \in BagToSet(calls) : CallAcquire(c)
    \/ \E c \in BagToSet(calls) : CallBody(c)
    \/ \E r \in BagToSet(loops) : LoopWake(r) /\ Unrecorded
    \/ \E r \in BagToSet(loops) : LoopAcquire(r)
    \/ \E r \in BagToSet(loops) : LoopLocked(r)
    \/ \E id \in 1..MaxTasks : ActionEnds(id)

LockSpec == Constructed /\ [][LockNext]_allvars

\* ------------------------------- task_scheduler_module.TaskScheduler
\* One thread calls the methods, one call after the other; it waits inside
\* stop_scheduler while it joins.  The loop thread is followed from one
\* statement of _scheduler_loop to the next.  What a job does when it runs
\* is its kind; which jobs are pending at a call of run_pending is open.
JobKinds == {"returns", "raises"}
\* schedule_time: an expression that builds a job, one that names
\* something undefined (NameError), one that fails otherwise
Expressions == {"valid", "name_error", "other_error"}
\* interval: time.sleep(interval) raises ValueError for a negative one
LoopIntervals == {-1, 1}

Thread(interval) ==
    [pc |-> "test", interval |-> interval, ran |-> 0, logged |-> FALSE,
     stopped |-> FALSE]
Alive(id) == threads[id].pc \notin {"exited", "died"}
ModuleSilent == UNCHANGED <<vars, late, lock, calls, api, fetch, monvars>>

\* faulty variant: the thread is never taken to be running
IsRunning_Never == FALSE

\* `self.scheduler_thread and self.scheduler_thread.is_alive()`
IsRunning == scheduler_thread # NoneThread /\ Alive(scheduler_thread)

\* add_task: named says whether task has a __name__ for the log line
add_task(kind, expression, named) ==
    /\ caller = "idle"
    /\ IF expression = "valid"
       THEN /\ Len(module_tasks) < MaxJobs
            /\ module_tasks' = Append(module_tasks, kind)
            /\ last' = Returned(IF named THEN "info" ELSE "error")
       ELSE /\ module_tasks' = module_tasks
            /\ last' = Returned("error")
    /\ UNCHANGED <<stop_event, scheduler_thread, threads, caller>>
    /\ ModuleSilent

start_scheduler(interval) ==
    /\ caller = "idle"
    /\ IF IsRunning
       THEN /\ last' = Returned("warning")
            /\ UNCHANGED <<scheduler_thread, threads>>
       ELSE /\ Len(threads) < MaxStarts
            /\ threads' = Append(threads, Thread(interval))
            /\ scheduler_thread' = Len(threads) + 1
            /\ last' = Returned("info")
    /\ UNCHANGED <<module_tasks, stop_event, caller>>
    /\ ModuleSilent

\* stop_scheduler up to `self.scheduler_thread.join()`
stop_scheduler ==
    /\ caller = "idle"
    /\ IF ~IsRunning
       THEN /\ last' = Returned("warning")
            /\ UNCHANGED <<stop_event, threads, caller>>
       ELSE /\ stop_event' = TRUE
            /\ threads' = [threads EXCEPT ![scheduler_thread].stopped = TRUE]
            /\ caller' = "joining"
            /\ last' = Returned("info")
    /\ UNCHANGED <<module_tasks, scheduler_thread>>
    /\ ModuleSilent

\* faulty variant: stop_scheduler does not wait for the thread
Joined_NoWait(id) == TRUE

\* `self.scheduler_thread.join()` returns
Joined(id) == ~Alive(id)

\* the rest of stop_scheduler
stop_scheduler_Joined ==
    /\ caller = "joining"
    /\ Joined(scheduler_thread)
    /\ scheduler_thread' = NoneThread
    /\ caller' = "idle"
    /\ last' = Returned("info")
    /\ UNCHANGED <<module_tasks, stop_event, threads>>
    /\ ModuleSilent

\* `while not self.stop_event.is_set():`
scheduler_loop_Test(id) ==
    /\ threads[id].pc = "test"
    /\ threads' = [threads EXCEPT ![id].pc = IF stop_event THEN "exited" ELSE "run"]
    /\ UNCHANGED <<module_tasks, stop_event, scheduler_thread, caller, last>>
    /\ ModuleSilent

\* faulty variant: run_pending has no try
Catches_Nothing == FALSE

\* `except Exception as e: logging.error(...)` of run_pending
Catches == TRUE

\* `self.run_pending()`: the jobs of pending are run in turn until one raises
run_pending(id, pending) ==
    /\ threads[id].pc = "run"
    /\ LET failed == \E j \in pending : module_tasks[j] = "raises" IN
         threads' = [threads EXCEPT
                        ![id].ran = IF @ < MaxRuns THEN @ + 1 ELSE @,
                        ![id].logged = failed /\ Catches,
                        ![id].pc = IF failed /\ ~Catches THEN "died" ELSE "sleep"]
    /\ UNCHANGED <<module_tasks, stop_event, scheduler_thread, caller, last>>
    /\ ModuleSilent

\* `time.sleep(interval)`
scheduler_loop_Sleep(id) ==
    /\ threads[id].pc = "sleep"
    /\ threads' = [threads EXCEPT
                      ![id].pc = IF threads[id].interval < 0 THEN "died" ELSE "test"]
    /\ UNCHANGED <<module_tasks, stop_event, scheduler_thread, caller, last>>
    /\ ModuleSilent

ModuleNext ==
    \/ \E kind \in JobKinds, expression \in Expressions, named \in BOOLEAN :
          add_task(kind, expression, named)
    \/ \E interval \in LoopIntervals : start_scheduler(interval)
    \/ stop_scheduler
    \/ stop_scheduler_Joined
    \/ \E id \in 1..Len(threads) : scheduler_loop_Test(id)
    \/ \E id \in 1..Len(threads) : \E pending \in SUBSET (1..Len(module_tasks)) :
          run_pending(id, pending)
    \/ \E id \in 1..Len(threads) : scheduler_loop_Sleep(id)

ModuleSpec == Constructed /\ [][ModuleNext]_allvars

\* ======================================================== the claims
Ids(list) == {list[i].id : i \in DOMAIN list}
InList(id) == id \in Ids(tasks)
Live == BagToSet(loops)
\* a thread was started for task object id in this step
Dispatched(id) == hist'[id].started > hist[id].started

\* ---- C1
\* C1: a one-shot task is dispatched at most once, its record is in the
\* list exactly as long as it was not dispatched and not cancelled, and a
\* scan whose `now` has reached its due time dispatches it (exactly one
\* thread) and removes the record.
C1_State ==
    \A id \in DOMAIN hist :
        ~hist[id].is_repeating =>
            /\ hist[id].started <= 1
            /\ hist[id].started = 1 => ~InList(id)
            /\ (hist[id].started = 0 /\ ~hist[id].cancelled) => InList(id)
C1_Step ==
    \A r \in Live : LoopScan(r) =>
        \A i \in DOMAIN tasks :
            (~tasks[i].is_repeating /\ tasks[i].run_at <= r.now) =>
                /\ hist[tasks[i].id].started = 0
                /\ hist'[tasks[i].id].started = 1
                /\ tasks[i].id \notin Ids(tasks')
C1_OneShotOnce == [](C1_State) /\ [][C1_Step]_vars

\* a one-shot task that was never cancelled has fired and left the list
\* while two polling threads are alive
C1_Witness ==
    \E id \in DOMAIN hist :
        /\ ~hist[id].is_repeating /\ ~hist[id].cancelled
        /\ hist[id].started = 1 /\ ~InList(id)
        /\ BagCardinality(loops) = 2

\* ---- C2
\* C2 as claimed: while the scheduler is running, a task that fell due
\* while the polling thread was asleep is never found undispatched more
\* than one tick interval after its due time.
C2_AsClaimed ==
    \A r \in Live : \A i \in DOMAIN tasks :
        (running /\ r.pc = "sleep" /\ r.wake_at - TickInterval < tasks[i].run_at)
            => clock - tasks[i].run_at <= TickInterval

\* C2: every scan dispatches every listed task whose due time its `now`
\* has reached, so no task that is in the list after the scan was due at
\* that wake: a due task is dispatched at the first wake at or after its
\* due time (however late that wake is).
C2_FirstWake ==
    [][\A r \in Live : LoopScan(r) =>
          /\ \A i \in DOMAIN tasks :
                tasks[i].run_at <= r.now => Dispatched(tasks[i].id)
          /\ \A j \in DOMAIN tasks' : tasks'[j].run_at > r.now]_vars

\* two tasks have been dispatched and a polling thread is asleep until the
\* next tick
C2_Witness ==
    /\ running
    /\ \E r \in Live : r.pc = "sleep"
    /\ \E a, b \in DOMAIN hist : a # b /\ hist[a].started > 0 /\ hist[b].started > 0

\* ---- C3
\* C3: a thread is started for a task only by a scan whose `now` is at or
\* after the task's due time at that scan, and `now` is never ahead of the
\* clock.
C3_NeverEarly ==
    [][\A id \in DOMAIN hist : Dispatched(id) =>
          \E r \in Live : \E i \in DOMAIN tasks :
              /\ r.pc = "scan" /\ LoopScan(r)
              /\ tasks[i].id = id
              /\ tasks[i].run_at <= r.now
              /\ r.now <= clock]_vars

\* a repeating task was dispatched a second time
C3_Witness ==
    \E i \in DOMAIN tasks :
        tasks[i].thread # NoThread /\ hist[tasks[i].id].started >= 2

\* ---- C4
\* C4: schedule_task with run_at <= time.time() raises TaskError and
\* changes neither the list nor any record; with run_at in the future it
\* appends exactly one one-shot record with that due time.
C4_ScheduleTask ==
    [][\A func \in Funcs, run_at \in RunAts : schedule_task(func, run_at) =>
          IF run_at <= clock
          THEN raised' = "TaskError" /\ tasks' = tasks /\ hist' = hist
          ELSE /\ raised' = "none"
               /\ Len(tasks') = Len(tasks) + 1
               /\ SubSeq(tasks', 1, Len(tasks)) = tasks
               /\ LET new == tasks'[Len(tasks')] IN
                    /\ new.func = func /\ new.run_at = run_at
                    /\ ~new.is_repeating
                    /\ new.id \notin Ids(tasks)
                    /\ hist'[new.id].started = 0]_vars

\* a registration was rejected at a time when an earlier one-shot
\* registration is still pending
C4_Witness ==
    /\ raised = "TaskError"
    /\ clock > 0
    /\ \E i \in DOMAIN tasks : ~tasks[i].is_repeating /\ tasks[i].run_at > clock

\* ---- C5
\* C5: schedule_repeating_task with interval <= 0 raises TaskError and
\* changes neither the list nor any record; with interval > 0 it appends
\* exactly one repeating record first due at the current time plus interval.
C5_ScheduleRepeating ==
    [][\A func \in Funcs, interval \in Intervals :
          schedule_repeating_task(func, interval) =>
              IF interval <= 0
              THEN raised' = "TaskError" /\ tasks' = tasks /\ hist' = hist
              ELSE /\ raised' = "none"
                   /\ Len(tasks') = Len(tasks) + 1
                   /\ SubSeq(tasks', 1, Len(tasks)) = tasks
                   /\ LET new == tasks'[Len(tasks')] IN
                        /\ new.func = func /\ new.interval = interval
                        /\ new.run_at = clock + interval
                        /\ new.is_repeating
                        /\ new.id \notin Ids(tasks)
                        /\ hist'[new.id].started = 0]_vars

\* a repeating registration made after time 0 is pending, and the last
\* call was rejected
C5_Witness ==
    /\ raised = "TaskError"
    /\ \E i \in DOMAIN tasks :
          /\ tasks[i].is_repeating /\ tasks[i].thread = NoThread
          /\ tasks[i].run_at > tasks[i].interval

\* ---- C6
\* C6: two consecutive dispatches of a repeating task are at least its
\* interval apart, and its record leaves the list only by a cancel_task
\* call for its func.
C6_Spacing ==
    [][\A i \in DOMAIN tasks : tasks[i].is_repeating =>
          /\ (Dispatched(tasks[i].id) /\ tasks[i].thread # NoThread)
                => clock - tasks[i].thread >= tasks[i].interval
          /\ tasks[i].id \in Ids(tasks') \/ hist'[tasks[i].id].cancelled]_vars

\* a repeating task was dispatched twice by two polling threads and is
\* still in the list
C6_Witness ==
    /\ BagCardinality(loops) = 2
    /\ \E i \in DOMAIN tasks :
          /\ tasks[i].is_repeating
          /\ hist[tasks[i].id].started = 2
          /\ ~hist[tasks[i].id].cancelled

\* ---- C7
\* C7 as claimed: after a repeating task fires, its new due time is its
\* previous due time plus its interval.
C7_AsClaimed ==
    [][\A i \in DOMAIN tasks :
          (tasks[i].is_repeating /\ Dispatched(tasks[i].id)) =>
              \E j \in DOMAIN tasks' :
                  /\ tasks'[j].id = tasks[i].id
                  /\ tasks'[j].run_at = tasks[i].run_at + tasks[i].interval]_vars

\* C7: after a repeating task fires, its new due time is the time at
\* which the loop reschedules it plus its interval, whatever its previous
\* due time was; interval and func stay as they were.
C7_NextRunFromNow ==
    [][\A i \in DOMAIN tasks :
          (tasks[i].is_repeating /\ Dispatched(tasks[i].id)) =>
              \E j \in DOMAIN tasks' :
                  /\ tasks'[j].id = tasks[i].id
                  /\ tasks'[j].run_at = clock + tasks[i].interval
                  /\ tasks'[j].interval = tasks[i].interval
                  /\ tasks'[j].func = tasks[i].func]_vars

\* a repeating task has fired once, at a time later than one interval
\* after time 0, and is due again one interval after the time it fired at
C7_Witness ==
    \E i \in DOMAIN tasks :
        /\ tasks[i].is_repeating
        /\ hist[tasks[i].id].started = 1
        /\ tasks[i].run_at = tasks[i].thread + tasks[i].interval
        /\ tasks[i].thread > tasks[i].interval

C9_AsClaimed ==
    [][\A func \in Funcs : cancel_task(func) => Len(tasks') >= Len(tasks) - 1]_vars

\* ---- C10
\* C10: a scan that finds a task with a raising action due starts a
\* thread for every task that is due at that scan, keeps the polling
\* thread alive and puts it to sleep for the next tick; the end of an
\* action's thread changes neither the list nor the polling threads.
C10_RaisingAction ==
    /\ [][\A r \in Live :
            (LoopScan(r) /\ \E k \in DOMAIN tasks :
                               Throws(tasks[k].func) /\ tasks[k].run_at <= r.now)
            => /\ \A i \in DOMAIN tasks :
                     tasks[i].run_at <= r.now => Dispatched(tasks[i].id)
               /\ loops' = (loops (-) One(r))
                              (+) One(Loop("sleep", 0, clock + TickInterval))]_vars
    /\ [][\A id \in DOMAIN hist :
            hist'[id].finished > hist[id].finished
                => loops' = loops /\ tasks' = tasks /\ running' = running]_vars

\* a repeating task with a raising action and a task with a normal action
\* were dispatched at the same time, the raising action's thread has
\* ended, the same task was dispatched again at a later tick, and the
\* polling thread is asleep until the next tick
C10_Witness ==
    /\ running
    /\ \E r \in Live : r.pc = "sleep"
    /\ \E i, j \in DOMAIN tasks :
          /\ Throws(tasks[i].func) /\ ~Throws(tasks[j].func)
          /\ hist[tasks[i].id].started = 2 /\ hist[tasks[i].id].finished >= 1
          /\ hist[tasks[j].id].started >= 1
          /\ tasks[j].thread # NoThread

\* ---- C11
\* C11: stop() returns only after the polling thread has exited, so that
\* from the return of stop() on (running is False until the next start())
\* no thread is started for any task.
C11_AsClaimed ==
    [][~running => \A id \in 1..Len(hist) : ~Dispatched(id)]_vars

\* ---- C12
\* C12: start() on a scheduler that is already running is a no-op: it
\* starts no further polling thread and changes neither the running flag
\* nor the task list.
C12_AsClaimed ==
    [][(start /\ running) =>
          /\ loops' = loops
          /\ running' = running
          /\ tasks' = tasks]_vars

\* ---- C13
C13_Step ==
    /\ start => running'
    /\ stop => /\ ~running'
               /\ tasks' = tasks
               /\ raised' = "none"
    /\ running' # running => start \/ stop

\* C13: running is False on construction, True after every start() and
\* False after every stop(), and nothing else changes it; stop() on a
\* scheduler that is stopped or was never started leaves running False
\* and the task list as it was, and raises nothing.
C13_RunningFlag == ~running /\ [][C13_Step]_vars

\* stop() has returned on a scheduler that had been started (its polling
\* thread still exists)
C13_Witness ==
    /\ ~running
    /\ loops # EmptyBag
    /\ raised = "none"

\* ---- C16
\* an action of task object id is executing
InFlight(id) == hist[id].finished < hist[id].started

C16_State ==
    /\ ENABLED stop
    /\ \A id \in 1..Len(hist) : InFlight(id) => ENABLED WorkerRun(id)

C16_Step ==
    (stop \/ \E func \in Funcs : cancel_task(func)) =>
        \A id \in 1..Len(hist) :
            /\ hist'[id].started = hist[id].started
            /\ hist'[id].finished = hist[id].finished

\* C16: cancel_task and stop() leave every executing action executing (they
\* end none and start none), an executing action can always run to its
\* end, and stop() returns without waiting for the executing actions.
C16_DispatchedRuns == [](C16_State) /\ [][C16_Step]_vars

\* the action of a task is executing although the task was cancelled after
\* its dispatch and stop() has returned
C16_Witness ==
    /\ ~running
    /\ loops # EmptyBag
    /\ \E id \in 1..Len(hist) : InFlight(id) /\ hist[id].cancelled

\* ---- C18
\* C18: one scan of the polling loop starts at most one thread for a
\* repeating task, however many periods have passed since the task was due,
\* and leaves the task due after the time of that scan.
C18_NoBurst ==
    [][\A i \in 1..Len(tasks) :
          LET task == tasks[i] IN
            task.is_repeating =>
              /\ hist'[task.id].started <= hist[task.id].started + 1
              /\ Dispatched(task.id) =>
                   \A j \in 1..Len(tasks') :
                       tasks'[j].id = task.id => tasks'[j].run_at > clock]_vars

\* the wake that ends a stall: a polling thread has read the time two or
\* more periods after a repeating task was due and is about to scan
C18_Witness ==
    \E r \in Live : \E i \in 1..Len(tasks) :
        LET task == tasks[i] IN
          /\ r.pc = "scan"
          /\ task.is_repeating
          /\ r.now >= task.run_at + 2 * task.interval

\* ---- C20
C20_Step ==
    /\ \A i \in 1..Len(tasks) :
         LET task == tasks[i] IN
           (Throws(task.func) /\ Dispatched(task.id)) =>
              /\ task.run_at <= clock
              /\ ~task.is_repeating => task.id \notin Ids(tasks')
              /\ task.is_repeating =>
                   \E j \in 1..Len(tasks') :
                       /\ tasks'[j].id = task.id
                       /\ tasks'[j].run_at = clock + task.interval
    /\ \A id \in 1..Len(hist) :
         /\ Dispatched(id) => InList(id)
         /\ hist'[id].finished > hist[id].finished =>
              /\ hist'[id].started = hist[id].started
              /\ tasks' = tasks

\* C20: the end of an action, by return or by exception, starts no thread
\* and changes no record; a thread is started only for a listed record
\* that is due; the scan that starts the thread of a raising one-shot task
\* removes its record, and the scan that starts the thread of a raising
\* repeating task sets its next due time one interval ahead.
C20_NoRetry == [][C20_Step]_vars

\* the action of a raising repeating task has raised, time has passed, and
\* the task waits for its next due time without having been started again
C20_Witness ==
    \E i \in 1..Len(tasks) :
        LET task == tasks[i] IN
          /\ Throws(task.func)
          /\ task.is_repeating
          /\ hist[task.id].started = 1
          /\ hist[task.id].finished = 1
          /\ task.thread < clock
          /\ clock < task.run_at
          /\ \E r \in Live : r.pc = "sleep" /\ r.wake_at > task.thread + TickInterval

\* ---- C15
\* the frame of list_tasks
C15_Frame == UNCHANGED <<clock, tasks, running, loops, hist>>

\* C15 as the specification states it: the caller gets a sequence with one
\* entry per listed record
C15_AsClaimed ==
    [][list_tasks =>
          LET ret == list_tasks_Returned(tasks) IN
            /\ ret.kind = "sequence"
            /\ Len(ret.items) = Len(tasks)
            /\ C15_Frame]_vars

\* C15: list_tasks() returns None; it writes one log line per record of the
\* list, in list order, with the record's due time and repeating flag, and
\* it leaves the list, every record and the running flag as they were.
C15_ListTasks ==
    [][list_tasks =>
          LET lines == list_tasks_Logged(tasks) IN
            /\ list_tasks_Returned(tasks) = NoneValue
            /\ Len(lines) = Len(tasks)
            /\ \A i \in 1..Len(tasks) :
                 /\ lines[i].run_at = tasks[i].run_at
                 /\ lines[i].is_repeating = (tasks[i].interval # NoInterval)
            /\ C15_Frame]_vars

\* a call that raises nothing has returned on a running scheduler whose
\* list holds a one-shot and a repeating record
C15_Witness ==
    /\ raised = "none"
    /\ running
    /\ \E i, j \in 1..Len(tasks) : tasks[i].is_repeating /\ ~tasks[j].is_repeating

\* ---- C19
SomeInFlight == \E id \in 1..Len(hist) : InFlight(id)

\* with an action executing, every polling thread can take its next step
\* and every call is served
C19_State ==
    SomeInFlight =>
        /\ \A r \in Live :
             /\ r.pc = "scan" => ENABLED LoopScan(r)
             /\ (r.pc # "scan" /\ clock >= r.wake_at) => ENABLED LoopWake(r)
        /\ ENABLED list_tasks
        /\ \A func \in Funcs :
             /\ ENABLED cancel_task(func)
             /\ Len(hist) < MaxTasks =>
                  /\ ENABLED schedule_task(func, clock + 1)
                  /\ ENABLED schedule_repeating_task(func, 1)

\* with an action executing, a scan starts a thread for every record that
\* is due and the polling thread sleeps one tick from the time of the scan
C19_Step ==
    \A r \in Live :
        (SomeInFlight /\ LoopScan(r)) =>
            /\ \A i \in 1..Len(tasks) :
                 Due(tasks[i], r.now) => Dispatched(tasks[i].id)
            /\ Loop("sleep", 0, clock + TickInterval) \in BagToSet(loops')

\* C19: an action that has not returned delays nothing: the scan still
\* starts a thread for every due record, the polling threads keep waking
\* and scanning, and registration, cancellation and listing are served.
C19_OwnThread == [](C19_State) /\ [][C19_Step]_vars

\* an action is executing and a scan has since started the thread of
\* another task, and the polling thread is asleep until its next wake
C19_Witness ==
    \E id \in 1..Len(hist) : \E i \in 1..Len(tasks) :
        /\ InFlight(id)
        /\ tasks[i].id # id
        /\ tasks[i].thread = clock
        /\ InFlight(tasks[i].id)
        /\ \E j \in 1..Len(tasks) : tasks[j].id = id /\ tasks[j].thread < clock
        /\ \E r \in Live : r.pc = "sleep" /\ r.wake_at = clock + TickInterval

\* ---- C17
\* 5.5 seconds have passed since the registration of the timing scenario
Measured == Len(hist) = 1 /\ clock = RegisteredAt + Elapsed

\* C17 as the specification states it: 5.5 seconds after its registration
\* the task with a period of one second has been dispatched 4 or 5 times
C17_AsClaimed ==
    Measured => hist[1].started \in {4, 5}

\* C17: 5.5 seconds after its registration the task has been dispatched at
\* most 5 times, and at least 4 times if no wake and no scan of a polling
\* thread has come late.
C17_FourOrFive ==
    Measured =>
        /\ hist[1].started <= 5
        /\ ~late => hist[1].started >= 4

\* 5.5 seconds after the registration, with every wake on time, the fifth
\* thread of the task has been started
C17_Witness ==
    /\ Measured
    /\ ~late
    /\ hist[1].started = 5

\* ---- C14
\* the threads that are inside a `with self.lock:` block
HeldCalls == {c \in BagToSet(calls) : c.pc = "held"}
LockedLoops == {r \in Live : r.pc = "locked"}
Inside ==
    LET held == [c \in HeldCalls |-> CopiesIn(c, calls)]
        locked == [r \in LockedLoops |-> CopiesIn(r, loops)]
    IN BagCardinality(held) + BagCardinality(locked)

\* the task list is read and changed only inside the lock: the steps that
\* touch it are CallBody and LoopLocked, and at most one thread is at such
\* a step, which is the thread that holds the lock
C14_Exclusive ==
    /\ Inside <= 1
    /\ lock = "free" <=> Inside = 0
    /\ lock = "call" <=> HeldCalls # {}
    /\ lock = "loop" <=> LockedLoops # {}

\* the thread that holds the lock is never the thread of an action that is
\* executing its function, and it waits for nothing: its block can run to
\* its end whatever actions are executing; a call that waits can take the
\* lock as soon as it is free
C14_NoWait ==
    /\ \A c \in HeldCalls : ENABLED CallBody(c)
    /\ \A r \in LockedLoops : ENABLED LoopLocked(r)
    /\ \A c \in BagToSet(calls) :
         (c.pc = "wait" /\ lock = "free") => ENABLED CallAcquire(c)

\* C14: every step that reads or changes the task list is taken by the one
\* thread that holds the lock; the lock is held only for such a step, never
\* while an action executes, so a call made from an action waits only for
\* blocks that end and is never left waiting for a lock that stays held.
C14_Locking == C14_Exclusive /\ C14_NoWait

\* the action of a task is inside the locked block of a scheduler method
\* it called, and the polling thread waits for the lock
C14_Witness ==
    /\ \E c \in HeldCalls : c.by # Outside /\ InFlight(c.by)
    /\ \E r \in Live : r.pc = "scan"
    /\ lock = "call"

\* ---- C21
\* C21: the due time of a listed record changes only in a step that starts
\* a thread for it, only if it is repeating, and only to a later time; the
\* due time of a repeating record does change in every such step.
C21_RecordMutation ==
    [][\A i \in 1..Len(tasks) : \A j \in 1..Len(tasks') :
          LET task == tasks[i] IN
            tasks'[j].id = task.id =>
              /\ tasks'[j].run_at # task.run_at =>
                   Dispatched(task.id) /\ task.is_repeating
              /\ tasks'[j].run_at >= task.run_at
              /\ Dispatched(task.id) => tasks'[j].run_at > task.run_at
              /\ tasks'[j].func = task.func
              /\ tasks'[j].interval = task.interval]_vars

\* a repeating record has been fired twice and is due one interval after
\* its last firing, beside a one-shot record that is still waiting
C21_Witness ==
    \E i, j \in 1..Len(tasks) :
        /\ tasks[i].is_repeating
        /\ hist[tasks[i].id].started = 2
        /\ tasks[i].run_at = tasks[i].thread + tasks[i].interval
        /\ ~tasks[j].is_repeating
        /\ ~running

\* ---- C22
\* C22: a scan that starts a thread for a record starts a thread for every
\* listed record with an earlier due time, wherever the two stand in the
\* list.
C22_DueOrder ==
    [][\A i, j \in 1..Len(tasks) :
          (tasks[i].run_at < tasks[j].run_at /\ Dispatched(tasks[j].id)) =>
              Dispatched(tasks[i].id)]_vars

\* the task registered second was due first and has been fired, and the
\* task registered first still waits
C22_Witness ==
    /\ Len(hist) = 2
    /\ hist[2].started = 1
    /\ ~hist[2].is_repeating
    /\ hist[1].started = 0
    /\ InList(1)

\* ---- C23
\* C23: whatever calls of start() and stop() have been made, at most one
\* thread executing _run is alive.
C23_AsClaimed == BagCardinality(loops) <= 1

\* ---- C24
AliveThreads == {id \in 1..Len(threads) : Alive(id)}

C24_State ==
    /\ Cardinality(AliveThreads) <= 1
    /\ \A id \in AliveThreads : scheduler_thread = id

C24_Step ==
    \A interval \in LoopIntervals :
        (IsRunning /\ start_scheduler(interval)) =>
            /\ last' = [log |-> "warning", raised |-> "none"]
            /\ UNCHANGED <<module_tasks, stop_event, scheduler_thread, threads, caller>>

\* C24: start_scheduler on a scheduler whose thread is alive logs a warning
\* and changes nothing; at most one loop thread is alive at any time, and it
\* is the thread scheduler_thread refers to.
C24_OneLoop == [](C24_State) /\ [][C24_Step]_modvars

\* start_scheduler has been called while the loop thread was alive and had
\* already called run_pending
C24_Witness ==
    /\ IsRunning
    /\ last.log = "warning"
    /\ Len(threads) = 1
    /\ threads[1].ran >= 1

\* ---- C25
C25_State ==
    (caller = "idle" /\ scheduler_thread = NoneThread) => AliveThreads = {}

C25_Step ==
    /\ (IsRunning /\ stop_scheduler) =>
          /\ stop_event'
          /\ caller' = "joining"
    /\ (~IsRunning /\ stop_scheduler) =>
          /\ last' = [log |-> "warning", raised |-> "none"]
          /\ UNCHANGED <<module_tasks, stop_event, scheduler_thread, threads, caller>>
    /\ stop_scheduler_Joined =>
          /\ ~Alive(scheduler_thread)
          /\ scheduler_thread' = NoneThread
          /\ last'.raised = "none"
    /\ \A id \in 1..Len(threads) :
          threads'[id].ran > threads[id].ran => scheduler_thread = id

\* C25: stop_scheduler on a running scheduler sets the stop event and
\* returns only when the loop thread has ended, leaving scheduler_thread
\* None; from then on no thread is alive and run_pending is called by no
\* loop; stop_scheduler on a scheduler that is not running logs a warning
\* and changes nothing.
C25_StopJoins == [](C25_State) /\ [][C25_Step]_modvars

\* stop_scheduler has returned after joining a loop thread that had called
\* run_pending
C25_Witness ==
    /\ caller = "idle"
    /\ scheduler_thread = NoneThread
    /\ stop_event
    /\ Len(threads) = 1
    /\ threads[1].pc = "exited"
    /\ threads[1].ran >= 1
    /\ last.log = "info"

\* ---- C26
\* C26: the loop started by a start_scheduler call goes on until a
\* stop_scheduler call made after that start: its thread leaves the loop
\* only when it has been stopped.
C26_AsClaimed ==
    \A id \in 1..Len(threads) : threads[id].pc = "exited" => threads[id].stopped

\* ---- C27
C27_Step ==
    /\ \A kind \in JobKinds, expression \in Expressions \ {"valid"}, named \in BOOLEAN :
          add_task(kind, expression, named) =>
              /\ module_tasks' = module_tasks
              /\ last' = [log |-> "error", raised |-> "none"]
    /\ \A id \in 1..Len(threads) : \A pending \in SUBSET (1..Len(module_tasks)) :
          (run_pending(id, pending) /\ \E j \in pending : module_tasks[j] = "raises") =>
              /\ threads'[id].logged
              /\ threads'[id].pc = "sleep"

\* C27: add_task with a schedule expression that cannot be built logs an
\* error, raises nothing and leaves self.tasks as it was; a call of
\* run_pending in which a job raises logs the error and returns, and the
\* loop thread goes on to its time.sleep.
C27_Contained == [][C27_Step]_modvars

\* a job has raised in run_pending, the error was logged, and the loop
\* thread has slept and is about to call run_pending again; the last
\* add_task was refused
C27_Witness ==
    /\ \E id \in 1..Len(threads) : threads[id].logged /\ threads[id].pc = "run"
    /\ last.log = "error"
    /\ Len(module_tasks) = 1

\* ------------------------------------------- api_client_utility.APIClient
\* the largest `retries` a call is made with
MaxRetries == 3

Retries == 0..MaxRetries

\* what requests.request does in one attempt: it returns a response with a
\* status code and a body that is JSON or not, or it raises
Statuses == {200, 404, 429, 503}
Attempts ==
    [kind : {"response"}, status : Statuses, json : BOOLEAN]
        \cup [kind : {"ConnectionError", "Timeout", "Unexpected"},
              status : {0}, json : {FALSE}]

ApiSilent == UNCHANGED <<vars, late, lock, calls, modvars, fetch, monvars>>

\* response.raise_for_status(): HTTPError for a 4xx or 5xx status
raise_for_status(response) ==
    IF response.status >= 400 /\ response.status < 600 THEN "HTTPError" ELSE "none"

\* _handle_response: the HTTPError is logged and raised again; otherwise
\* response.json(), or response.text when the body is no JSON
handle_response(response) ==
    IF raise_for_status(response) # "none"
    THEN [raised |-> raise_for_status(response), value |-> "None"]
    ELSE [raised |-> "none", value |-> IF response.json THEN "json" ELSE "text"]

\* the try block of one attempt
TryRequest(outcome) ==
    IF outcome.kind = "response"
    THEN handle_response(outcome)
    ELSE [raised |-> outcome.kind, value |-> "None"]

\* faulty variant: every HTTP error is retried
Retryable_AnyHTTP(outcome) ==
    TryRequest(outcome).raised \in {"ConnectionError", "Timeout", "HTTPError"}

\* the except branches that may go on to another attempt
Retryable(outcome) ==
    \/ TryRequest(outcome).raised \in {"ConnectionError", "Timeout"}
    \/ /\ TryRequest(outcome).raised = "HTTPError"
       /\ outcome.status \in {429, 503}

\* _request_with_retries is called; `for attempt in range(retries)` has no
\* iteration when retries is 0 and the call returns None
request_with_retries(retries) ==
    /\ api.pc \in {"idle", "returned", "raised"}
    /\ api' = [pc |-> IF retries > 0 THEN "request" ELSE "returned",
               retries |-> retries, attempt |-> 0, sent |-> <<>>, slept |-> 0,
               result |-> [raised |-> "none", value |-> "None"]]
    /\ ApiSilent

\* one iteration of the for loop up to its return, raise or sleep
request_attempt(outcome) ==
    /\ api.pc = "request"
    /\ LET r == TryRequest(outcome)
           again == /\ r.raised # "none"
                    /\ Retryable(outcome)
                    /\ api.attempt < api.retries - 1
       IN  api' = [api EXCEPT
                     !.sent = Append(@, outcome),
                     !.pc = IF r.raised = "none" THEN "returned"
                            ELSE IF again THEN "sleep" ELSE "raised",
                     !.result = IF again THEN @ ELSE r]
    /\ ApiSilent

\* `sleep(2 ** attempt)` and the step to the next iteration
request_backoff ==
    /\ api.pc = "sleep"
    /\ api' = [api EXCEPT !.slept = @ + 2 ^ api.attempt,
                          !.attempt = @ + 1,
                          !.pc = "request"]
    /\ ApiSilent

ApiNext ==
    \/ \E retries \in Retries : request_with_retries(retries)
    \/ \E outcome \in Attempts : request_attempt(outcome)
    \/ request_backoff

ApiSpec == Constructed /\ [][ApiNext]_allvars

\* ---- C28
C28_Failed(o) == o.kind # "response" \/ o.status >= 400
C28_MayRetry(o) ==
    \/ o.kind \in {"ConnectionError", "Timeout"}
    \/ o.kind = "response" /\ o.status \in {429, 503}
C28_Error(o) == IF o.kind = "response" THEN "HTTPError" ELSE o.kind

\* C28: _request_with_retries sends at most `retries` requests; every
\* request but the last one it sent met a ConnectionError, a Timeout or a
\* 429/503 response; when it raises, it raises the error of the last
\* request, and a retryable error only when that request was the
\* retries-th; when a request succeeds it returns that response as
\* _handle_response gives it (parsed JSON, else the text).
C28_Retries ==
    LET n == Len(api.sent) IN
    /\ n <= api.retries
    /\ \A i \in 1..(n - 1) : C28_MayRetry(api.sent[i])
    /\ api.pc \in {"request", "sleep"} => n < api.retries
    /\ api.pc = "raised" =>
          /\ n >= 1
          /\ C28_Failed(api.sent[n])
          /\ api.result.raised = C28_Error(api.sent[n])
          /\ C28_MayRetry(api.sent[n]) => n = api.retries
    /\ (api.pc = "returned" /\ api.retries > 0) =>
          /\ n >= 1
          /\ ~C28_Failed(api.sent[n])
          /\ api.result = [raised |-> "none",
                           value |-> IF api.sent[n].json THEN "json" ELSE "text"]

\* a call with retries = 3 has returned the JSON of its third request after
\* a Timeout and a 429 response
C28_Witness ==
    /\ api.pc = "returned"
    /\ api.retries = 3
    /\ Len(api.sent) = 3
    /\ api.sent[1].kind = "Timeout"
    /\ api.sent[2].status = 429
    /\ api.result.value = "json"
    /\ api.slept = 3

\* ------------------------------------------- web_scraping_utils.fetch_html
\* `delay=2`, the seconds slept after a failed attempt
Delay == 2

\* what `requests.get(url, timeout=10)` does in one attempt
FetchAttempts ==
    [kind : {"response"}, status : {200, 404, 500}, json : {FALSE}]
        \cup [kind : {"ConnectionError", "Timeout", "RequestException", "Unexpected"},
              status : {0}, json : {FALSE}]

FetchSilent == UNCHANGED <<vars, late, lock, calls, modvars, api, monvars>>

\* the try block of one attempt: requests.get, raise_for_status, the text
TryGet(outcome) ==
    IF outcome.kind = "response"
    THEN IF raise_for_status(outcome) # "none"
         THEN [raised |-> raise_for_status(outcome), value |-> "None"]
         ELSE [raised |-> "none", value |-> "text"]
    ELSE [raised |-> outcome.kind, value |-> "None"]

\* the four except branches: each prints the error and falls through
Printed(error) ==
    error \in {"HTTPError", "ConnectionError", "Timeout", "RequestException"}

\* `raise Exception(f"Failed to fetch HTML content ...")` after the loop
GaveUp == [raised |-> "Exception", value |-> "None"]

\* fetch_html is called: `attempt = 0` and the first `while attempt < retries`
fetch_html(retries) ==
    /\ fetch.pc \in {"idle", "returned", "raised"}
    /\ fetch' = [pc |-> IF 0 < retries THEN "get" ELSE "raised",
                 retries |-> retries, attempt |-> 0, sent |-> <<>>, slept |-> 0,
                 result |-> IF 0 < retries
                            THEN [raised |-> "none", value |-> "None"]
                            ELSE GaveUp]
    /\ FetchSilent

\* one pass through the try statement and `attempt += 1`
fetch_attempt(outcome) ==
    /\ fetch.pc = "get"
    /\ LET r == TryGet(outcome)
       IN  fetch' = [fetch EXCEPT
                       !.sent = Append(@, outcome),
                       !.pc = IF r.raised = "none" THEN "returned"
                              ELSE IF Printed(r.raised) THEN "sleep" ELSE "raised",
                       !.attempt = IF Printed(r.raised) THEN @ + 1 ELSE @,
                       !.result = IF Printed(r.raised) THEN @ ELSE r]
    /\ FetchSilent

\* `time.sleep(delay)`, the next `while attempt < retries`, and the raise
\* that follows the loop
fetch_sleep ==
    /\ fetch.pc = "sleep"
    /\ fetch' = [fetch EXCEPT
                   !.slept = @ + Delay,
                   !.pc = IF fetch.attempt < fetch.retries THEN "get" ELSE "raised",
                   !.result = IF fetch.attempt < fetch.retries THEN @ ELSE GaveUp]
    /\ FetchSilent

FetchNext ==
    \/ \E retries \in Retries : fetch_html(retries)
    \/ \E outcome \in FetchAttempts : fetch_attempt(outcome)
    \/ fetch_sleep

FetchSpec == Constructed /\ [][FetchNext]_allvars

\* ---- C29
C29_Error(o) == IF o.kind = "response" THEN "HTTPError" ELSE o.kind

\* C29: fetch_html makes at most `retries` GET attempts, returns the text of
\* the first attempt that succeeds, and when every attempt has failed with
\* a request error it raises that error: HTTPError, ConnectionError, Timeout
\* or RequestException.
C29_AsClaimed ==
    LET n == Len(fetch.sent) IN
    /\ n <= fetch.retries
    /\ fetch.pc = "returned" =>
          /\ n >= 1
          /\ fetch.sent[n].kind = "response" /\ fetch.sent[n].status < 400
          /\ fetch.result = [raised |-> "none", value |-> "text"]
    /\ (fetch.pc = "raised" /\ n >= 1) =>
          fetch.result.raised = C29_Error(fetch.sent[n])

\* ------------------------------------------- system_monitor.SystemMonitor
\* the most threads start creates in one run, and the most log entries
\* that are counted for one thread
MaxMonitors == 3
MaxEntries == 2

MonitorSilent == UNCHANGED <<vars, late, lock, calls, modvars, api, fetch>>

\* a thread with target _log_usage, about to open the log file
MonitorThread == [pc |-> "open", entries |-> 0]

MonitorAlive(id) == monitor_threads[id].pc \notin {"exited", "died"}

\* status: `return self._monitoring`
status == monitoring

\* start: nothing happens while _monitoring is set
monitor_start ==
    /\ monitor_caller = "idle"
    /\ IF ~monitoring
       THEN /\ Len(monitor_threads) < MaxMonitors
            /\ monitoring' = TRUE
            /\ monitor_threads' = Append(monitor_threads, MonitorThread)
            /\ monitor_thread' = Len(monitor_threads) + 1
       ELSE UNCHANGED <<monitoring, monitor_threads, monitor_thread>>
    /\ UNCHANGED monitor_caller
    /\ MonitorSilent

\* stop up to `self._thread.join()`
monitor_stop ==
    /\ monitor_caller = "idle"
    /\ IF monitoring
       THEN /\ monitoring' = FALSE
            /\ monitor_caller' = "joining"
       ELSE UNCHANGED <<monitoring, monitor_caller>>
    /\ UNCHANGED <<monitor_threads, monitor_thread>>
    /\ MonitorSilent

\* `self._thread.join()` returns
monitor_stop_Joined ==
    /\ monitor_caller = "joining"
    /\ ~MonitorAlive(monitor_thread)
    /\ monitor_caller' = "idle"
    /\ UNCHANGED <<monitoring, monitor_threads, monitor_thread>>
    /\ MonitorSilent

\* `with open(self.log_file, 'a') as file`: outside the try statement, so an
\* error ends the thread with _monitoring as it was
log_usage_Open(id, opened) ==
    /\ monitor_threads[id].pc = "open"
    /\ monitor_threads' = [monitor_threads EXCEPT
                             ![id].pc = IF opened THEN "test" ELSE "died"]
    /\ UNCHANGED <<monitoring, monitor_thread, monitor_caller>>
    /\ MonitorSilent

\* `while self._monitoring`
log_usage_Test(id) ==
    /\ monitor_threads[id].pc = "test"
    /\ monitor_threads' = [monitor_threads EXCEPT
                             ![id].pc = IF monitoring THEN "body" ELSE "exited"]
    /\ UNCHANGED <<monitoring, monitor_thread, monitor_caller>>
    /\ MonitorSilent

\* the try statement: the entry is written and the thread sleeps, or an
\* IOError or another exception is printed and _monitoring is cleared
log_usage_Body(id, outcome) ==
    /\ monitor_threads[id].pc = "body"
    /\ monitor_threads' = [monitor_threads EXCEPT
                             ![id].pc = "test",
                             ![id].entries = IF outcome = "written" /\ @ < MaxEntries
                                             THEN @ + 1 ELSE @]
    /\ monitoring' = IF outcome = "written" THEN monitoring ELSE FALSE
    /\ UNCHANGED <<monitor_thread, monitor_caller>>
    /\ MonitorSilent

MonitorNext ==
    \/ monitor_start
    \/ monitor_stop
    \/ monitor_stop_Joined
    \/ \E id \in 1..Len(monitor_threads) : \E opened \in BOOLEAN :
          log_usage_Open(id, opened)
    \/ \E id \in 1..Len(monitor_threads) : log_usage_Test(id)
    \/ \E id \in 1..Len(monitor_threads) :
          \E outcome \in {"written", "IOError", "Exception"} :
             log_usage_Body(id, outcome)

MonitorSpec == Constructed /\ [][MonitorNext]_allvars

\* ---- C30
\* C30: whenever a caller can read status() and it is True, a monitoring
\* thread is alive.
C30_AsClaimed ==
    (monitor_caller = "idle" /\ status) =>
        \E id \in 1..Len(monitor_threads) : MonitorAlive(id)

====
